---- MODULE Spec2Model ----
(***************************************************************************)
(* A model of sigma-test (src/sigma-test.go): the companion test-case      *)
(* loader (getTestCases), the per-file verdict (testFile), the config      *)
(* loader (loadConfigs), the directory walk (run) and the aggregation of   *)
(* the exit status (main).                                                 *)
(*                                                                         *)
(* Two specifications:                                                     *)
(*   Spec      the whole program: main -> loadConfigs -> run per root ->   *)
(*             the walk callback per visited path -> exit.                 *)
(*   SpecCalls single calls of getTestCases and testFile on inputs drawn   *)
(*             from bounded sets, with inputs, locals and results kept.    *)
(***************************************************************************)
EXTENDS Naturals, Sequences, FiniteSets

VARIABLES
    \* ---- the program (Spec) ----
    pc,          \* "main" | "loop" | "walk" | "ret" | "exited"
    recursive,   \* *fRecursive
    configs,     \* main's configs, the result of loadConfigs
    rootsDone,   \* how many root paths main's loop has started
    root,        \* run's root argument
    todo,        \* paths filepath.Walk still has to hand to the callback
    passed,      \* run's local passed
    walkErr,     \* the error filepath.Walk returns ("nil" when none)
    allPassed,   \* main's allPassed
    exitStatus,  \* process exit status, read once pc = "exited"
    considered,  \* paths the callback has read (os.ReadFile) in this run
    last,        \* the path of the last line written to this run's results table
    outcomes,    \* every outcome testFile has had so far in this process
    \* ---- single calls (SpecCalls) ----
    uOp,         \* "none" | "getTestCases" | "testFile"
    uFile,       \* the companion test file handed to the call
    uRule,       \* testFile's r
    uConfigs,    \* testFile's configs
    uOut         \* what the call returned, with testFile's locals

vars == <<pc, recursive, configs, rootsDone, root, todo, passed, walkErr,
          allPassed, exitStatus, considered, last, outcomes,
          uOp, uFile, uRule, uConfigs, uOut>>

progVars == <<pc, recursive, configs, rootsDone, root, todo, passed, walkErr,
              allPassed, exitStatus, considered, last, outcomes>>

callVars == <<uOp, uFile, uRule, uConfigs, uOut>>

(***************************************************************************)
(* Bounds                                                                  *)
(***************************************************************************)
\* documents in a companion test file
MaxDocs == 2
\* configurations handed to testFile
MaxConfigs == 2
\* logsource definitions in one configuration
MaxDefs == 2
\* root paths on the command line
MaxRoots == 2
\* files the --config-files pattern matches
MaxConfigFiles == 1

SeqsUpTo(S, n) == UNION {[1..k -> S] : k \in 0..n}

(***************************************************************************)
(* Test cases and companion test files                                     *)
(***************************************************************************)
\* TestCase.Match is a *bool: nil when the document has no match field.
MatchVals == {"nil", "true", "false"}

\* TestCase.Event is a map, nil when the document has no event field. The
\* other events are named by what the evaluator does with them.
EventVals == {"nil", "evMatch", "evNoMatch", "evError"}

TestCase == [Match : MatchVals, Event : EventVals]

\* A document the YAML decoder rejects.
Malformed == [Match |-> "bad", Event |-> "bad"]

\* What a trailing "---" decodes to: a TestCase with nothing set.
EmptyTestCase == [Match |-> "nil", Event |-> "nil"]

\* A companion file: absent, present but not openable, or a stream of
\* documents optionally closed by an end of document marker.
TestFiles ==
    {[state |-> "missing", docs |-> <<>>, marker |-> FALSE],
     [state |-> "unreadable", docs |-> <<>>, marker |-> FALSE]}
    \cup [state : {"present"},
          docs : SeqsUpTo(TestCase \cup {Malformed}, MaxDocs),
          marker : BOOLEAN]

\* The documents the decoder finds in the stream, in order.
Documents(tf) == tf.docs \o (IF tf.marker THEN <<EmptyTestCase>> ELSE <<>>)

\* decoder.Decode(&testCase), the i-th call.
Decode(tf, i) ==
    IF i > Len(Documents(tf))
    THEN [err |-> "EOF", testCase |-> EmptyTestCase]
    ELSE IF Documents(tf)[i] = Malformed
         THEN [err |-> "yaml", testCase |-> EmptyTestCase]
         ELSE [err |-> "nil", testCase |-> Documents(tf)[i]]

\* The for loop of getTestCases: decode until the first error.
RECURSIVE DecodeLoop(_, _, _)
DecodeLoop(tf, i, testCases) ==
    LET d == Decode(tf, i)
    IN  IF d.err # "nil"
        THEN [err |-> d.err, testCases |-> testCases]
        ELSE DecodeLoop(tf, i + 1, Append(testCases, d.testCase))

\* A variant that drops every record without an event, wherever it is.
DropAllEventless(testCases) ==
    [kind |-> "ok", err |-> "nil",
     testCases |-> SelectSeq(testCases, LAMBDA tc : tc.Event # "nil")]

\* The removal of the trailing empty test case. testCases[len-1] on an
\* empty slice is an index out of range: the process panics.
TrimTrailing(testCases) ==
    IF Len(testCases) = 0
    THEN [kind |-> "panic", err |-> "nil", testCases |-> <<>>]
    ELSE IF testCases[Len(testCases)].Event = "nil"
         THEN [kind |-> "ok", err |-> "nil",
               testCases |-> SubSeq(testCases, 1, Len(testCases) - 1)]
         ELSE [kind |-> "ok", err |-> "nil", testCases |-> testCases]

getTestCases(tf) ==
    IF tf.state = "missing"
    THEN [kind |-> "ok", err |-> "nil", testCases |-> <<>>]
    ELSE IF tf.state = "unreadable"
    THEN [kind |-> "err", err |-> "open", testCases |-> <<>>]
    ELSE LET l == DecodeLoop(tf, 1, <<>>)
         IN  IF l.err # "EOF"
             THEN [kind |-> "err", err |-> "parse", testCases |-> <<>>]
             ELSE TrimTrailing(l.testCases)

(***************************************************************************)
(* Rules, configurations, the evaluator                                    *)
(***************************************************************************)
NoLogsource == [Product |-> "", Category |-> ""]

\* sigma.Rule, as far as testFile reads it: r.Logsource. Detection is the
\* opaque condition, named by what the evaluator does with an event that
\* has no fields: "positive" does not match it, "negated" matches it.
Rules ==
    {[Logsource |-> [Product |-> "windows", Category |-> "process_creation"],
      Detection |-> "positive"],
     [Logsource |-> [Product |-> "linux", Category |-> "auth"],
      Detection |-> "negated"]}

\* Entries of sigma.Config.Logsources: a logsource and what it rewrites to.
LogsourceDefs ==
    {[Logsource |-> [Product |-> "windows", Category |-> "process_creation"],
      Rewrite |-> NoLogsource],
     [Logsource |-> [Product |-> "windows", Category |-> "auth"],
      Rewrite |-> NoLogsource],
     [Logsource |-> [Product |-> "windows", Category |-> "auth"],
      Rewrite |-> [Product |-> "linux", Category |-> "process_creation"]]}

SigmaGoBackend == "github.com/bradleyjkemp/sigma-go"

\* sigma.Config values that loadConfigs retains.
Configs ==
    [Backends : {<<SigmaGoBackend>>},
     Logsources : SeqsUpTo(LogsourceDefs, MaxDefs)]

\* The condition of the if in testFile's inner loop.
LogsourceMatches(v, r) ==
    /\ \/ v.Logsource.Product = r.Logsource.Product
       \/ v.Rewrite.Product = r.Logsource.Product
    /\ \/ v.Logsource.Category = r.Logsource.Category
       \/ v.Rewrite.Category = r.Logsource.Category

\* for _, v := range c.Logsources: append c for every matching v.
RECURSIVE LogsourcesLoop(_, _, _, _)
LogsourcesLoop(c, r, j, relevantConfigs) ==
    IF j > Len(c.Logsources)
    THEN relevantConfigs
    ELSE LogsourcesLoop(c, r, j + 1,
            IF LogsourceMatches(c.Logsources[j], r)
            THEN Append(relevantConfigs, c)
            ELSE relevantConfigs)

\* for _, c := range configs.
RECURSIVE ConfigsLoop(_, _, _, _)
ConfigsLoop(cs, r, i, relevantConfigs) ==
    IF i > Len(cs)
    THEN relevantConfigs
    ELSE ConfigsLoop(cs, r, i + 1, LogsourcesLoop(cs[i], r, 1, relevantConfigs))

RelevantConfigs(r, cs) == ConfigsLoop(cs, r, 1, <<>>)

\* rule.Matches(ctx, event) of the external evaluator: (Result, error). On
\* an error the evaluator returns the zero Result, whose Match is false.
Matches(r, event) ==
    IF event = "evError" THEN [Match |-> FALSE, err |-> "eval"]
    ELSE IF event = "evMatch" THEN [Match |-> TRUE, err |-> "nil"]
    ELSE IF event = "nil" THEN [Match |-> (r.Detection = "negated"), err |-> "nil"]
    ELSE [Match |-> FALSE, err |-> "nil"]

\* fmt.Sprintf("%v should have matched", tc.Event) and its counterpart: the
\* printed event followed by the fixed text.
Failure(event, text) == [event |-> event, text |-> text]

\* A variant of the loop body that leaves a test case unscored when the
\* evaluator returns an error.
CaseStepSkipErrors(r, tc, st) ==
    LET shouldMatch == IF tc.Match # "nil" THEN tc.Match = "true" ELSE TRUE
        result == Matches(r, tc.Event)
    IN  IF result.err # "nil" THEN st
        ELSE IF shouldMatch /\ ~result.Match
        THEN [st EXCEPT !.pass = FALSE,
                 !.failures = Append(@, Failure(tc.Event, "should have matched"))]
        ELSE IF ~shouldMatch /\ result.Match
        THEN [st EXCEPT !.pass = FALSE,
                 !.failures = Append(@, Failure(tc.Event, "shouldn't have matched"))]
        ELSE st

\* A variant of the loop body that stops recording after the first failure.
CaseStepFirstOnly(r, tc, st) ==
    LET shouldMatch == IF tc.Match # "nil" THEN tc.Match = "true" ELSE TRUE
        result == Matches(r, tc.Event)
    IN  IF ~st.pass THEN st
        ELSE IF shouldMatch /\ ~result.Match
        THEN [st EXCEPT !.pass = FALSE,
                 !.failures = Append(@, Failure(tc.Event, "should have matched"))]
        ELSE IF ~shouldMatch /\ result.Match
        THEN [st EXCEPT !.pass = FALSE,
                 !.failures = Append(@, Failure(tc.Event, "shouldn't have matched"))]
        ELSE st

\* The body of for _, tc := range testCases. The evaluator's error is
\* dropped (result, _ :=) and only result.Match is read.
CaseStep(r, tc, st) ==
    LET shouldMatch == IF tc.Match # "nil" THEN tc.Match = "true" ELSE TRUE
        result == Matches(r, tc.Event)
    IN  IF shouldMatch /\ ~result.Match
        THEN [st EXCEPT !.pass = FALSE,
                 !.failures = Append(@, Failure(tc.Event, "should have matched"))]
        ELSE IF ~shouldMatch /\ result.Match
        THEN [st EXCEPT !.pass = FALSE,
                 !.failures = Append(@, Failure(tc.Event, "shouldn't have matched"))]
        ELSE st

RECURSIVE CasesLoop(_, _, _, _)
CasesLoop(r, testCases, i, st) ==
    IF i > Len(testCases)
    THEN st
    ELSE CasesLoop(r, testCases, i + 1, CaseStep(r, testCases[i], st))

\* What testFile returns: err is "nil" (pass), one of the three sentinel
\* errors, the error of getTestCases ("open", "parse"), or "panic" when the
\* call does not return. testCases and relevantConfigs are its locals.
Returned(err, failures, testCases, relevantConfigs) ==
    [err |-> err, failures |-> failures, testCases |-> testCases,
     relevantConfigs |-> relevantConfigs]

errNoTests == "SKIP"
errFailedTests == "FAIL"
errNoLogSources == "ERROR"

\* testFile, with the companion file found at testFilename in place of path.
testFile(tf, r, cs) ==
    LET got == getTestCases(tf)
        relevantConfigs == RelevantConfigs(r, cs)
        st == CasesLoop(r, got.testCases, 1,
                        [pass |-> TRUE, failures |-> <<>>])
    IN  IF got.kind = "panic" THEN Returned("panic", <<>>, <<>>, <<>>)
        ELSE IF got.err # "nil" THEN Returned(got.err, <<>>, <<>>, <<>>)
        ELSE IF Len(got.testCases) = 0
        THEN Returned(errNoTests, <<>>, got.testCases, <<>>)
        ELSE IF Len(relevantConfigs) = 0
        THEN Returned(errNoLogSources, <<>>, got.testCases, relevantConfigs)
        ELSE IF st.pass
        THEN Returned("nil", <<>>, got.testCases, relevantConfigs)
        ELSE Returned(errFailedTests, st.failures, got.testCases, relevantConfigs)

(***************************************************************************)
(* SpecCalls: one call of getTestCases or testFile                         *)
(***************************************************************************)
NoFile == [state |-> "missing", docs |-> <<>>, marker |-> FALSE]
NoRule == [Logsource |-> NoLogsource, Detection |-> "positive"]
NoOut == Returned("nil", <<>>, <<>>, <<>>)

Config(defs) == [Backends |-> <<SigmaGoBackend>>, Logsources |-> defs]

WindowsProcessCreation ==
    [Logsource |-> [Product |-> "windows", Category |-> "process_creation"],
     Rewrite |-> NoLogsource]

WindowsAuth ==
    [Logsource |-> [Product |-> "windows", Category |-> "auth"],
     Rewrite |-> NoLogsource]

\* The configuration sets every companion file of TestFiles is tried with:
\* none loaded, one relevant to the windows rule only, one relevant to no
\* rule, and both.
FewConfigSets ==
    {<<>>,
     <<Config(<<WindowsProcessCreation>>)>>,
     <<Config(<<WindowsAuth>>)>>,
     <<Config(<<WindowsAuth>>), Config(<<WindowsProcessCreation>>)>>}

\* The companion files every configuration set of Configs is tried with.
FewTestFiles ==
    {[state |-> "present", marker |-> FALSE,
      docs |-> <<[Match |-> "nil", Event |-> "evMatch"]>>],
     [state |-> "present", marker |-> TRUE,
      docs |-> <<[Match |-> "false", Event |-> "evMatch"]>>]}

TestFileInputs ==
    (TestFiles \X Rules \X FewConfigSets)
    \cup (FewTestFiles \X Rules \X SeqsUpTo(Configs, MaxConfigs))

(***************************************************************************)
(* The file system run walks                                               *)
(***************************************************************************)
\* rules/
\*   a.yaml  a_test.yaml  notes.txt
\*   sub/      b.yml  deep/ c.yaml
\*   z.yaml/   d.yml            (a directory whose name ends in .yaml)
Dirs == {"rules", "rules/sub", "rules/sub/deep", "rules/z.yaml"}

Files == {"rules/a.yaml", "rules/a_test.yaml", "rules/notes.txt",
          "rules/sub/b.yml", "rules/sub/deep/c.yaml", "rules/z.yaml/d.yml"}

\* The root paths a command line may name; "missing" does not exist.
Roots == {"rules", "rules/sub", "rules/a.yaml", "missing"}

\* os.Lstat(path) succeeds.
Exists(path) == path \in Dirs \cup Files

\* info.IsDir()
IsDir(path) == path \in Dirs

\* filepath.Ext(path)
Ext(path) ==
    CASE path \in {"rules/a.yaml", "rules/a_test.yaml", "rules/sub/deep/c.yaml",
                   "rules/z.yaml"} -> ".yaml"
      [] path \in {"rules/sub/b.yml", "rules/z.yaml/d.yml"} -> ".yml"
      [] path = "rules/notes.txt" -> ".txt"
      [] OTHER -> ""

\* The entries of a directory, in the lexical order filepath.Walk uses.
Children(path) ==
    CASE path = "rules" -> <<"rules/a.yaml", "rules/a_test.yaml",
                             "rules/notes.txt", "rules/sub", "rules/z.yaml">>
      [] path = "rules/sub" -> <<"rules/sub/b.yml", "rules/sub/deep">>
      [] path = "rules/sub/deep" -> <<"rules/sub/deep/c.yaml">>
      [] path = "rules/z.yaml" -> <<"rules/z.yaml/d.yml">>
      [] OTHER -> <<>>

\* The companion files the walk finds beside a rule file: absent, empty,
\* only an end marker, malformed, one passing and one failing test case.
WalkTestFiles ==
    {[state |-> "missing", docs |-> <<>>, marker |-> FALSE],
     [state |-> "present", docs |-> <<>>, marker |-> FALSE],
     [state |-> "present", docs |-> <<>>, marker |-> TRUE],
     [state |-> "present", docs |-> <<Malformed>>, marker |-> FALSE],
     [state |-> "present", marker |-> FALSE,
      docs |-> <<[Match |-> "true", Event |-> "evMatch"]>>],
     [state |-> "present", marker |-> TRUE,
      docs |-> <<[Match |-> "nil", Event |-> "evNoMatch"]>>]}

(***************************************************************************)
(* loadConfigs                                                             *)
(***************************************************************************)
\* The values of --config-files: unset, a malformed pattern, a pattern.
ConfigPatterns == {"", "[", "configs/*.yml"}

\* A file the pattern matches: whether os.ReadFile and sigma.ParseConfig
\* succeed on it, and the sigma.Config it parses to.
ConfigFiles ==
    {[read |-> "error", parse |-> "ok", config |-> Config(<<>>)],
     [read |-> "ok", parse |-> "error", config |-> Config(<<>>)],
     [read |-> "ok", parse |-> "ok",
      config |-> [Backends |-> <<"splunk">>,
                  Logsources |-> <<WindowsProcessCreation>>]],
     [read |-> "ok", parse |-> "ok",
      config |-> [Backends |-> <<SigmaGoBackend>>,
                  Logsources |-> <<WindowsProcessCreation>>]],
     [read |-> "ok", parse |-> "ok",
      config |-> [Backends |-> <<"splunk", SigmaGoBackend, SigmaGoBackend>>,
                  Logsources |-> <<WindowsAuth>>]]}

\* for _, backend := range config.Backends: append once, then break.
HasSigmaGoBackend(config) ==
    \E i \in 1..Len(config.Backends) : config.Backends[i] = SigmaGoBackend

\* for _, configFilepath := range configFilepaths
RECURSIVE ConfigFilesLoop(_, _, _)
ConfigFilesLoop(matched, i, loaded) ==
    IF i > Len(matched) THEN [configs |-> loaded, err |-> "nil"]
    ELSE IF matched[i].read # "ok" THEN [configs |-> <<>>, err |-> "read config"]
    ELSE IF matched[i].parse # "ok" THEN [configs |-> <<>>, err |-> "parse config"]
    ELSE ConfigFilesLoop(matched, i + 1,
            IF HasSigmaGoBackend(matched[i].config)
            THEN Append(loaded, matched[i].config)
            ELSE loaded)

\* loadConfigs, with what filepath.Glob finds for the pattern.
loadConfigs(fConfigFiles, matched) ==
    IF fConfigFiles = "" THEN [configs |-> <<>>, err |-> "nil"]
    ELSE IF fConfigFiles = "[" THEN [configs |-> <<>>, err |-> "bad pattern"]
    ELSE ConfigFilesLoop(matched, 1, <<>>)

(***************************************************************************)
(* main and run                                                            *)
(***************************************************************************)
\* A variant of the directory branch that never prunes.
NeverSkipDir(path, rt, rec) == "nil"

\* What the callback returns for a directory.
DirReturn(path, rt, rec) ==
    IF path # rt /\ ~rec THEN "SkipDir" ELSE "nil"

\* The text run prints for testFile's err.
Outcome(err) == IF err = "nil" THEN "PASS" ELSE err

InitProg ==
    /\ pc = "main"
    /\ recursive \in BOOLEAN
    /\ configs = <<>>
    /\ rootsDone = 0
    /\ root = "none"
    /\ todo = <<>>
    /\ passed = TRUE
    /\ walkErr = "nil"
    /\ allPassed = TRUE
    /\ exitStatus = 0
    /\ considered = {}
    /\ last = "none"
    /\ outcomes = {}

InitNoCall ==
    /\ uOp = "none"
    /\ uFile = NoFile
    /\ uRule = NoRule
    /\ uConfigs = <<>>
    /\ uOut = NoOut

InitCalls ==
    /\ InitProg
    /\ recursive = TRUE
    /\ InitNoCall

CallGetTestCases ==
    /\ uOp = "none"
    /\ \E tf \in TestFiles :
        LET got == getTestCases(tf)
        IN  /\ uOp' = "getTestCases"
            /\ uFile' = tf
            /\ uOut' = Returned(IF got.kind = "panic" THEN "panic" ELSE got.err,
                                <<>>, got.testCases, <<>>)
    /\ UNCHANGED <<uRule, uConfigs>>
    /\ UNCHANGED progVars

CallTestFile ==
    /\ uOp = "none"
    /\ \E in \in TestFileInputs :
        /\ uOp' = "testFile"
        /\ uFile' = in[1]
        /\ uRule' = in[2]
        /\ uConfigs' = in[3]
        /\ uOut' = testFile(in[1], in[2], in[3])
    /\ UNCHANGED progVars

NextCalls == CallGetTestCases \/ CallTestFile

SpecCalls == InitCalls /\ [][NextCalls]_vars

\* main, lines 32-36: load the configurations or exit with status 1.
LoadConfigs ==
    /\ pc = "main"
    /\ \E pattern \in ConfigPatterns,
          matched \in SeqsUpTo(ConfigFiles, MaxConfigFiles) :
        LET got == loadConfigs(pattern, matched)
        IN  IF got.err # "nil"
            THEN /\ pc' = "exited"
                 /\ exitStatus' = 1
                 /\ UNCHANGED configs
            ELSE /\ pc' = "loop"
                 /\ configs' = got.configs
                 /\ UNCHANGED exitStatus
    /\ UNCHANGED <<recursive, rootsDone, root, todo, passed, walkErr,
                   allPassed, considered, last, outcomes>>
    /\ UNCHANGED callVars

\* The next root path: run starts filepath.Walk on it. Lstat failing on the
\* root makes Walk call the callback with a nil info, and info.IsDir() on
\* it is a nil dereference: the process panics (exit status 2).
RunStart ==
    /\ pc = "loop"
    /\ rootsDone < MaxRoots
    /\ \E p \in Roots :
        /\ root' = p
        /\ IF Exists(p)
           THEN /\ pc' = "walk"
                /\ todo' = <<p>>
                /\ UNCHANGED exitStatus
           ELSE /\ pc' = "exited"
                /\ todo' = <<>>
                /\ exitStatus' = 2
    /\ rootsDone' = rootsDone + 1
    /\ passed' = TRUE
    /\ walkErr' = "nil"
    /\ considered' = {}
    /\ last' = "none"
    /\ UNCHANGED <<recursive, configs, allPassed, outcomes>>
    /\ UNCHANGED callVars

\* The callback on a directory: descend, or prune it.
WalkDir ==
    /\ pc = "walk" /\ todo # <<>>
    /\ IsDir(Head(todo))
    /\ todo' = IF DirReturn(Head(todo), root, recursive) = "SkipDir"
               THEN Tail(todo)
               ELSE Children(Head(todo)) \o Tail(todo)
    /\ UNCHANGED <<pc, recursive, configs, rootsDone, root, passed, walkErr,
                   allPassed, exitStatus, considered, last, outcomes>>
    /\ UNCHANGED callVars

\* The callback on a file that is neither .yaml nor .yml.
WalkOtherFile ==
    /\ pc = "walk" /\ todo # <<>>
    /\ ~IsDir(Head(todo))
    /\ Ext(Head(todo)) # ".yaml" /\ Ext(Head(todo)) # ".yml"
    /\ todo' = Tail(todo)
    /\ UNCHANGED <<pc, recursive, configs, rootsDone, root, passed, walkErr,
                   allPassed, exitStatus, considered, last, outcomes>>
    /\ UNCHANGED callVars

IsCandidate(path) == ~IsDir(path) /\ Ext(path) \in {".yaml", ".yml"}

\* The callback on a candidate that cannot be read or does not parse as a
\* rule: it returns the error, which ends the walk.
WalkFatal ==
    /\ pc = "walk" /\ todo # <<>>
    /\ IsCandidate(Head(todo))
    /\ considered' = considered \cup {Head(todo)}
    /\ \E e \in {"read", "parse rule"} : walkErr' = e
    /\ todo' = <<>>
    /\ UNCHANGED <<pc, recursive, configs, rootsDone, root, passed,
                   allPassed, exitStatus, last, outcomes>>
    /\ UNCHANGED callVars

\* The callback on a candidate that sigma.InferFileType does not take for a
\* rule file: nothing is reported.
WalkNotRule ==
    /\ pc = "walk" /\ todo # <<>>
    /\ IsCandidate(Head(todo))
    /\ considered' = considered \cup {Head(todo)}
    /\ todo' = Tail(todo)
    /\ UNCHANGED <<pc, recursive, configs, rootsDone, root, passed, walkErr,
                   allPassed, exitStatus, last, outcomes>>
    /\ UNCHANGED callVars

\* The callback on a rule file: testFile, then the line of the table.
WalkRule ==
    /\ pc = "walk" /\ todo # <<>>
    /\ IsCandidate(Head(todo))
    /\ considered' = considered \cup {Head(todo)}
    /\ \E r \in Rules, tf \in WalkTestFiles :
        LET res == testFile(tf, r, configs)
        IN  /\ outcomes' = outcomes \cup {Outcome(res.err)}
            /\ IF res.err = "panic"
               THEN /\ pc' = "exited"
                    /\ exitStatus' = 2
                    /\ todo' = <<>>
                    /\ UNCHANGED <<passed, last>>
               ELSE /\ passed' = (passed /\ res.err \notin {errFailedTests, errNoLogSources})
                    /\ last' = Head(todo)
                    /\ todo' = Tail(todo)
                    /\ UNCHANGED <<pc, exitStatus>>
    /\ UNCHANGED <<recursive, configs, rootsDone, root, walkErr, allPassed>>
    /\ UNCHANGED callVars

WalkFn == WalkDir \/ WalkOtherFile \/ WalkFatal \/ WalkNotRule \/ WalkRule

\* filepath.Walk has returned: run returns (passed, err) and main either
\* exits with status 1 or folds passed into allPassed.
RunReturn ==
    /\ pc = "walk" /\ todo = <<>>
    /\ IF walkErr # "nil"
       THEN /\ pc' = "exited"
            /\ exitStatus' = 1
            /\ UNCHANGED allPassed
       ELSE /\ pc' = "loop"
            /\ allPassed' = (allPassed /\ passed)
            /\ UNCHANGED exitStatus
    /\ UNCHANGED <<recursive, configs, rootsDone, root, todo, passed, walkErr,
                   considered, last, outcomes>>
    /\ UNCHANGED callVars

\* Every root path has been run: exit.
Finish ==
    /\ pc = "loop"
    /\ rootsDone >= 1
    /\ pc' = "exited"
    /\ exitStatus' = IF allPassed THEN 0 ELSE 1
    /\ UNCHANGED <<recursive, configs, rootsDone, root, todo, passed, walkErr,
                   allPassed, considered, last, outcomes>>
    /\ UNCHANGED callVars

Init == InitProg /\ InitNoCall

Next == LoadConfigs \/ RunStart \/ WalkDir \/ WalkOtherFile \/ WalkFatal
        \/ WalkNotRule \/ WalkRule \/ RunReturn \/ Finish

Spec == Init /\ [][Next]_vars

(***************************************************************************)
(* Claims                                                                  *)
(***************************************************************************)
\* A call of testFile that got past the test-case and configuration checks.
Evaluated ==
    /\ uOp = "testFile"
    /\ Len(uOut.testCases) >= 1
    /\ Len(uOut.relevantConfigs) >= 1

\* The effective expectation of a test case: true when match is absent.
Expectation(tc) == IF tc.Match = "nil" THEN TRUE ELSE tc.Match = "true"

\* The evaluator's verdict on a test case, an error counting as no match.
Actual(r, tc) == Matches(r, tc.Event).err = "nil" /\ Matches(r, tc.Event).Match

Mismatch(r, tc) == Expectation(tc) # Actual(r, tc)

\* One message per mismatching test case, in test-case order.
ExpectedFailures(r, testCases) ==
    LET wrong == SelectSeq(testCases, LAMBDA tc : Mismatch(r, tc))
    IN  [i \in 1..Len(wrong) |->
            Failure(wrong[i].Event,
                    IF Expectation(wrong[i]) THEN "should have matched"
                    ELSE "shouldn't have matched")]

\* The companion file yields zero test cases: it is absent, it decodes to no
\* document, or it decodes to one record without an event.
ZeroTestCases(tf) ==
    \/ tf.state = "missing"
    \/ /\ tf.state = "present"
       /\ Documents(tf) = <<>>
    \/ /\ tf.state = "present"
       /\ Len(Documents(tf)) = 1
       /\ Documents(tf)[1] # Malformed
       /\ Documents(tf)[1].Event = "nil"

\* C1: a rule file whose companion test file yields zero test cases gets the
\* verdict Skip, whatever configurations are loaded, and testFile returns.
C1_ZeroTestCasesSkip ==
    (uOp = "testFile" /\ ZeroTestCases(uFile)) => uOut.err = errNoTests

\* A configuration is relevant to a rule: one of its definitions has the
\* rule's product and the rule's category, each directly or as rewrite.
IsRelevant(c, r) ==
    \E j \in 1..Len(c.Logsources) :
        LET d == c.Logsources[j]
        IN  /\ r.Logsource.Product \in {d.Logsource.Product, d.Rewrite.Product}
            /\ r.Logsource.Category \in {d.Logsource.Category, d.Rewrite.Category}

\* C2: with at least one test case, the verdict is Error only when some
\* configuration is loaded and none is relevant; with no configuration
\* loaded the verdict is Pass or Fail.
C2_ErrorOnlyWhenConfigsIrrelevant ==
    (uOp = "testFile" /\ Len(uOut.testCases) >= 1) =>
        /\ uOut.err = errNoLogSources =>
              /\ uConfigs # <<>>
              /\ \A i \in 1..Len(uConfigs) : ~IsRelevant(uConfigs[i], uRule)
        /\ uConfigs = <<>> => uOut.err \in {"nil", errFailedTests}

\* C3: a decode failure of a companion stream ends the walk with an error
\* and the process with status 1; nothing is visited after it.
C3_DecodeFailureIsFatal ==
    "parse" \in outcomes =>
        \/ pc = "walk" /\ todo = <<>> /\ walkErr # "nil"
        \/ pc = "exited" /\ exitStatus = 1

\* The process ended by a fatal error: main or the walk returned an error.
FatalExit == pc = "exited" /\ (root = "none" \/ walkErr # "nil")

\* The process ended by a panic.
Crashed == pc = "exited" /\ exitStatus = 2

\* C4: the process exits 0 exactly when every visited rule file yielded Pass
\* or Skip and no fatal error occurred, and exits 1 otherwise.
C4_ExitStatusAggregates ==
    (pc = "exited" /\ ~Crashed) =>
        /\ exitStatus = 0 <=> (outcomes \subseteq {"PASS", "SKIP"} /\ ~FatalExit)
        /\ exitStatus \in {0, 1}

\* C5: with test cases and a relevant configuration, the verdict is Pass
\* exactly when every test case's match equals its effective expectation,
\* and otherwise Fail with one message per mismatching test case, in order;
\* failures are listed only with Fail.
C5_VerdictFromExpectations ==
    /\ Evaluated =>
          /\ uOut.err \in {"nil", errFailedTests}
          /\ uOut.err = "nil" <=>
                \A i \in 1..Len(uOut.testCases) : ~Mismatch(uRule, uOut.testCases[i])
          /\ uOut.failures = ExpectedFailures(uRule, uOut.testCases)
    /\ uOut.failures # <<>> => uOut.err = errFailedTests

C5_Witness ==
    /\ Evaluated
    /\ uOut.err = errFailedTests
    /\ Len(uOut.failures) = 2
    /\ uOut.failures[1].text = "shouldn't have matched"
    /\ uOut.failures[2].text = "should have matched"
    /\ uOut.testCases[2].Match = "nil"

\* A document that is a real test case: it decodes and has an event.
IsReal(doc) == doc # Malformed /\ doc.Event # "nil"

\* C6: N real documents followed by one end marker decode to those N test
\* cases in order; of the decoded records only the last is ever dropped, and
\* only when it has no event.
C6_TrailingMarkerDropped ==
    (uOp = "getTestCases" /\ uFile.state = "present") =>
        LET recs == Documents(uFile)
        IN  /\ (uFile.marker /\ \A i \in 1..Len(uFile.docs) : IsReal(uFile.docs[i])) =>
                  uOut.err = "nil" /\ uOut.testCases = uFile.docs
            /\ (recs # <<>> /\ \A i \in 1..Len(recs) : recs[i] # Malformed) =>
                  /\ uOut.err = "nil"
                  /\ Len(uOut.testCases) \in {Len(recs) - 1, Len(recs)}
                  /\ \A i \in 1..Len(uOut.testCases) : uOut.testCases[i] = recs[i]
                  /\ Len(uOut.testCases) = Len(recs) - 1 <=> recs[Len(recs)].Event = "nil"

C6_Witness ==
    /\ uOp = "getTestCases"
    /\ uFile.state = "present" /\ uFile.marker
    /\ Len(uFile.docs) >= 2
    /\ \A i \in 1..Len(uFile.docs) : IsReal(uFile.docs[i])
    /\ Len(uOut.testCases) = Len(uFile.docs)

\* C7: a root path that does not exist makes run return an error, and the
\* process exits with status 1 without panicking.
C7_MissingRootIsReturnedError ==
    (root # "none" /\ ~Exists(root)) =>
        \/ pc = "walk" /\ todo = <<>> /\ walkErr # "nil"
        \/ pc = "exited" /\ exitStatus = 1

\* The .yaml and .yml files directly in a directory, and at any depth.
RECURSIVE Under(_)
Under(dir) ==
    UNION {IF IsDir(Children(dir)[i])
           THEN {Children(dir)[i]} \cup Under(Children(dir)[i])
           ELSE {Children(dir)[i]} : i \in 1..Len(Children(dir))}

HasYamlExt(path) == Ext(path) = ".yaml" \/ Ext(path) = ".yml"

DirectRuleFiles(dir) ==
    {Children(dir)[i] : i \in 1..Len(Children(dir))} \cap {f \in Files : HasYamlExt(f)}

AllRuleFiles(dir) == Under(dir) \cap {f \in Files : HasYamlExt(f)}

WalkCompleted == pc = "walk" /\ todo = <<>> /\ walkErr = "nil"

\* C8: a non-recursive run over a directory reads, evaluates and reports only
\* .yaml/.yml files directly in the root, and all of them when the walk
\* completes; a recursive run reads every such file at any depth; a
\* directory is never a candidate.
C8_NonRecursiveStaysInRoot ==
    (pc = "walk" /\ IsDir(root)) =>
        /\ considered \cap Dirs = {}
        /\ ~recursive => considered \subseteq DirectRuleFiles(root)
        /\ ~recursive => last \in DirectRuleFiles(root) \cup {"none"}
        /\ (~recursive /\ WalkCompleted) => considered = DirectRuleFiles(root)
        /\ (recursive /\ WalkCompleted) => considered = AllRuleFiles(root)

C8_Witness ==
    /\ WalkCompleted
    /\ ~recursive
    /\ root = "rules"
    /\ considered = {"rules/a.yaml", "rules/a_test.yaml"}
    /\ last = "rules/a.yaml"

\* C9: the relevant configurations are the loaded configurations that are
\* relevant to the rule, each once, in the order they were loaded.
C9_RelevantConfigsOnceInOrder ==
    (uOp = "testFile" /\ Len(uOut.testCases) >= 1) =>
        uOut.relevantConfigs =
            SelectSeq(uConfigs, LAMBDA c : IsRelevant(c, uRule))

\* The evaluator returns an error on the test case's event.
Errors(r, tc) == Matches(r, tc.Event).err # "nil"

\* C10: an evaluator error does not end the evaluation: the test case counts
\* as not matched (a "should have matched" failure when a match is expected,
\* none otherwise) and the test cases after it are still evaluated.
C10_EvaluatorErrorIsNoMatch ==
    Evaluated =>
        LET tcs == uOut.testCases
            erring(e) == {i \in 1..Len(tcs) : Errors(uRule, tcs[i]) /\ Expectation(tcs[i]) = e}
            listed(text) == {j \in 1..Len(uOut.failures) :
                                /\ uOut.failures[j].text = text
                                /\ \E i \in 1..Len(tcs) :
                                      /\ Errors(uRule, tcs[i])
                                      /\ uOut.failures[j].event = tcs[i].Event}
        IN  /\ uOut.err \in {"nil", errFailedTests}
            /\ Cardinality(listed("should have matched")) = Cardinality(erring(TRUE))
            /\ listed("shouldn't have matched") = {}
            /\ \A i \in 1..Len(tcs) :
                  Errors(uRule, tcs[i]) =>
                      LET rest == ExpectedFailures(uRule, SubSeq(tcs, i + 1, Len(tcs)))
                      IN  /\ Len(rest) <= Len(uOut.failures)
                          /\ rest = SubSeq(uOut.failures,
                                           Len(uOut.failures) - Len(rest) + 1,
                                           Len(uOut.failures))

C10_Witness ==
    /\ Evaluated
    /\ Len(uOut.testCases) = 2
    /\ Errors(uRule, uOut.testCases[1]) /\ Expectation(uOut.testCases[1])
    /\ uOut.testCases[2].Event = "evMatch" /\ uOut.testCases[2].Match = "false"
    /\ uOut.failures = <<Failure("evError", "should have matched"),
                         Failure("evMatch", "shouldn't have matched")>>

====
